---- MODULE Spec2Model ----
(***************************************************************************)
(* Model of the BDC backend: the connection pool of backend/app/db.py, the *)
(* request workers of backend/app/routers/{meta,export,reports}.py, the    *)
(* export query builder and the report template engine.                    *)
(***************************************************************************)
EXTENDS Integers, Sequences, FiniteSets, TLC

(* ------------------------------ bounds --------------------------------- *)
\* worker threads of the executor (db.py:18 uses 10)
NumWorkers == 2
\* largest max_size a pool is constructed with (db.py:145 uses 10)
MaxPool == 2

Workers == 1..NumWorkers

VARIABLES
    max_size,   \* PgPool._max
    q,          \* PgPool._q: FIFO of idle connections (Queue(maxsize=max_size))
    created,    \* PgPool._created
    opened,     \* number of connections pg8000.connect has returned so far
    pc,         \* position of each worker thread
    held,       \* conn held by each worker's _run (0: none)
    tmp,        \* value of _created a worker loaded for its "+= 1"
    result,     \* how the worker's _run ended
    awaited,    \* whether the calling request still awaits the worker
    \* run_report._run (reports.py)
    r_pc,          \* position of run_report's worker
    call_sql,      \* the template fetch_call_sql_sync returned
    r_abbr,        \* abbr
    r_state_sql,   \* prepared_sql after the re.sub of line 51
    prepared_sql,  \* prepared_sql as executed
    r_counties,    \* the counties parameter ([given |-> FALSE] models None)
    r_status,      \* outcome of the request
    \* export_csv (export.py)
    e_pc,          \* position of export_csv and its worker
    e_in,          \* the request (state, counties, attributes) and what the
                   \* store holds (the per-state table, the other tables)
    e_abbr,        \* abbr
    e_selected,    \* selected
    e_plan,        \* the statement built in lines 225-275
    e_rows,        \* rows
    e_status,      \* outcome of the request
    e_leases,      \* number of getconn calls of the request
    e_queries      \* number of data queries the request executed

poolVars == <<max_size, q, created, opened, pc, held, tmp, result, awaited>>

reportVars == <<r_pc, call_sql, r_abbr, r_state_sql, prepared_sql, r_counties, r_status>>

exportVars == <<e_pc, e_in, e_abbr, e_selected, e_plan, e_rows, e_status, e_leases, e_queries>>

vars == <<poolVars, reportVars, exportVars>>

(* ------------------------------ helpers -------------------------------- *)
Range(s) == {s[i] : i \in 1..Len(s)}

Kinds == {"list_attributes", "export_csv", "run_report", "get_states", "get_counties"}

\* how the body of the try-block of each endpoint's worker can end
Outcomes(k) ==
    IF k \in {"get_states", "get_counties"}
    THEN {"ok", "store_error"}
    ELSE {"ok", "client_error", "store_error"}

\* PgPool.__init__: min_size connections are opened and queued
PgPoolInit(mn, mx) ==
    /\ max_size = mx
    /\ q = [i \in 1..mn |-> i]
    /\ created = mn
    /\ opened = mn

InitWorkers ==
    /\ pc = [w \in Workers |-> "idle"]
    /\ held = [w \in Workers |-> 0]
    /\ tmp = [w \in Workers |-> 0]
    /\ result = [w \in Workers |-> "none"]
    /\ awaited = [w \in Workers |-> FALSE]

\* any pool with min_size <= max_size
InitPool ==
    /\ \E mx \in 1..MaxPool : \E mn \in 0..mx : PgPoolInit(mn, mx)
    /\ InitWorkers

\* get_pool(): PgPool(min_size=1, max_size=...), no request in flight
InitGetPool ==
    /\ PgPoolInit(1, MaxPool)
    /\ InitWorkers


(* ======================================================================= *)
(* Text: a Python str / SQL text value is a sequence of one-character      *)
(* strings.                                                                *)
(* ======================================================================= *)
LowerLetters == <<"a","b","c","d","e","f","g","h","i","j","k","l","m",
                  "n","o","p","q","r","s","t","u","v","w","x","y","z">>
UpperLetters == <<"A","B","C","D","E","F","G","H","I","J","K","L","M",
                  "N","O","P","Q","R","S","T","U","V","W","X","Y","Z">>
Digits == {"0","1","2","3","4","5","6","7","8","9"}
Whitespace == {" ", "\t", "\n"}

IsLower(c) == \E i \in 1..26 : LowerLetters[i] = c
IsUpper(c) == \E i \in 1..26 : UpperLetters[i] = c
\* regex \w
IsWord(c) == IsLower(c) \/ IsUpper(c) \/ c \in Digits \/ c = "_"

LowerChar(c) ==
    IF IsUpper(c) THEN LowerLetters[CHOOSE i \in 1..26 : UpperLetters[i] = c] ELSE c
UpperChar(c) ==
    IF IsLower(c) THEN UpperLetters[CHOOSE i \in 1..26 : LowerLetters[i] = c] ELSE c

\* str.lower(), str.upper()
Lower(s) == [i \in 1..Len(s) |-> LowerChar(s[i])]
Upper(s) == [i \in 1..Len(s) |-> UpperChar(s[i])]

\* s without its leading and trailing characters of the set ws
StripChars(s, ws) ==
    LET keep == {i \in 1..Len(s) : s[i] \notin ws}
    IN  IF keep = {} THEN <<>>
        ELSE LET lo == CHOOSE i \in keep : \A j \in keep : i <= j
                 hi == CHOOSE i \in keep : \A j \in keep : j <= i
             IN  SubSeq(s, lo, hi)

\* str.strip(): leading and trailing whitespace removed
Strip(s) == StripChars(s, Whitespace)

\* SQL TRIM(x): leading and trailing spaces removed
SqlTrim(s) == StripChars(s, {" "})

\* SQL LEFT(x, n)
SqlLeft(s, n) == SubSeq(s, 1, IF Len(s) < n THEN Len(s) ELSE n)

\* s[i:i+len(p)] == p
OccursAt(s, p, i) ==
    /\ i >= 1
    /\ i + Len(p) - 1 <= Len(s)
    /\ \A k \in 1..Len(p) : s[i + k - 1] = p[k]

\* str.endswith / str.startswith / "p in s"
EndsWith(s, p) == OccursAt(s, p, Len(s) - Len(p) + 1)
StartsWith(s, p) == OccursAt(s, p, 1)
Contains(s, p) == \E i \in 1..(Len(s) + 1) : OccursAt(s, p, i)

\* str.replace(old, new) for a non-empty old: leftmost occurrences, scanned
\* left to right without overlap
RECURSIVE ReplaceFrom(_, _, _, _)
ReplaceFrom(s, old, new, i) ==
    IF i > Len(s) THEN <<>>
    ELSE IF OccursAt(s, old, i)
         THEN new \o ReplaceFrom(s, old, new, i + Len(old))
         ELSE <<s[i]>> \o ReplaceFrom(s, old, new, i + 1)

Replace(s, old, new) == ReplaceFrom(s, old, new, 1)

\* sep.join(parts)
RECURSIVE Join(_, _)
Join(parts, sep) ==
    IF parts = <<>> THEN <<>>
    ELSE IF Len(parts) = 1 THEN parts[1]
    ELSE parts[1] \o sep \o Join(Tail(parts), sep)

\* str.split(sep) for a one-character sep
RECURSIVE SplitFrom(_, _, _, _)
SplitFrom(s, sep, i, cur) ==
    IF i > Len(s) THEN <<cur>>
    ELSE IF s[i] = sep
         THEN <<cur>> \o SplitFrom(s, sep, i + 1, <<>>)
         ELSE SplitFrom(s, sep, i + 1, Append(cur, s[i]))

Split(s, sep) == SplitFrom(s, sep, 1, <<>>)

\* [x for x in xs if P(x)]
RECURSIVE NonEmptyOnly(_)
NonEmptyOnly(xs) ==
    IF xs = <<>> THEN <<>>
    ELSE IF Head(xs) = <<>> THEN NonEmptyOnly(Tail(xs))
         ELSE <<Head(xs)>> \o NonEmptyOnly(Tail(xs))


(* ======================================================================= *)
(* Report template engine: reports.py                                      *)
(* ======================================================================= *)
\* number of fragments a stored template is built from
MaxFrags == 5

Frags == { <<"'">>, <<"\"">>, <<"t", "_">>, <<"c", "a">>, <<"C">>, <<" ">>,
           <<"n", "u", "l", "l">>, <<"|">> }

RECURSIVE Concats(_)
Concats(n) ==
    IF n = 0 THEN {<<>>}
    ELSE LET prev == Concats(n - 1)
         IN  prev \cup {p \o f : p \in prev, f \in Frags}

\* longer templates: two tokens sharing a quote, both quote kinds, a call
\* with a per-state table and the county placeholder, adjacent nulls
ExtraRows ==
    { <<"'","t","_","c","a","'","t","_","c","a","'">>,
      <<"\"","t","_","c","a","\""," ","'","t","_","c","a","'">>,
      <<"C","(","'","t","a","b","l","e","_","c","a","'",","," ","n","u","l","l",")">>,
      <<"n","u","l","l","n","u","l","l"," ","|"," ","C">>,
      <<" ","|","C","(","'","x","_","1","_","o","h","'",",","n","u","l","l",",","n","u","l","l",")"," ","|","C">> }

\* values of the control table's SQL column for the requested script
StoredRows == Concats(MaxFrags) \cup ExtraRows

\* rows of dim_states_detail as the query of line 42 returns them (lower-cased)
DimStates == << [name |-> <<"t","e","x","a","s">>, abbr |-> <<"t","x">>],
                [name |-> <<"o","h","i","o">>,     abbr |-> <<"o","h">>] >>

StateInputs == { <<" ","T","e","x","a","s">>, <<"O","H">>, <<"g","u","a","m"," ">> }

C06001 == <<"0","6","0","0","1">>
C06013 == <<"0","6","0","1","3">>
AllSentinel == <<"A","l","l">>

CountyInputs ==
    { [given |-> FALSE, list |-> <<>>],
      [given |-> TRUE,  list |-> <<>>],
      [given |-> TRUE,  list |-> <<AllSentinel>>],
      [given |-> TRUE,  list |-> <<C06001>>],
      [given |-> TRUE,  list |-> <<C06001, C06013>>],
      [given |-> TRUE,  list |-> <<AllSentinel, C06013>>] }

\* fetch_call_sql_sync: first non-empty stripped "|"-segment of the stored
\* value; <<>> stands for a falsy result (None)
fetch_call_sql_sync(hasRow, row) ==
    IF ~hasRow \/ row = <<>> THEN <<>>
    ELSE LET segs  == Split(row, "|")
             parts == NonEmptyOnly([i \in 1..Len(segs) |-> Strip(segs[i])])
         IN  IF parts = <<>> THEN <<>> ELSE parts[1]

\* abbr_map.get(state.strip().lower(), state.strip().upper()); an abbr key
\* overrides a name key, a later row an earlier one (dict.update)
ReportAbbr(state) ==
    LET key    == Lower(Strip(state))
        byAbbr == {i \in 1..Len(DimStates) : DimStates[i].abbr = key}
        byName == {i \in 1..Len(DimStates) : DimStates[i].name = key}
    IN  IF byAbbr # {} THEN key
        ELSE IF byName # {}
             THEN DimStates[CHOOSE i \in byName : \A j \in byName : j <= i].abbr
             ELSE Upper(Strip(state))

\* the regex (['\"])\w+_[a-z]{2}\1 at position i: the ends k of the \w+ part
\* after which "_", two lowercase letters and the opening quote follow
MatchKs(s, i) ==
    {k \in (i + 1)..Len(s) :
        /\ \A j \in (i + 1)..k : IsWord(s[j])
        /\ k + 4 <= Len(s)
        /\ s[k + 1] = "_"
        /\ IsLower(s[k + 2])
        /\ IsLower(s[k + 3])
        /\ s[k + 4] = s[i]}

MatchAt(s, i) == s[i] \in {"'", "\""} /\ MatchKs(s, i) # {}

\* \w+ is greedy: the longest \w+ part that lets the rest match
MatchEnd(s, i) ==
    LET ks == MatchKs(s, i)
    IN  (CHOOSE k \in ks : \A j \in ks : j <= k) + 4

\* a replacement that keeps the token's prefix and replaces only the suffix
replace_keeping_prefix(m, abbr) ==
    SubSeq(m, 1, Len(m) - 3) \o abbr \o <<m[1]>>

\* replace_with_state_abbr: m is the matched text, group(1) its first character
replace_with_state_abbr(m, abbr) ==
    <<m[1]>> \o abbr \o <<m[1]>>

\* re.sub(pattern, replace_with_state_abbr, call_sql): leftmost matches,
\* scanning on after each match
RECURSIVE ReSubFrom(_, _, _)
ReSubFrom(s, abbr, i) ==
    IF i > Len(s) THEN <<>>
    ELSE IF MatchAt(s, i)
         THEN replace_with_state_abbr(SubSeq(s, i, MatchEnd(s, i)), abbr)
                  \o ReSubFrom(s, abbr, MatchEnd(s, i) + 1)
         ELSE <<s[i]>> \o ReSubFrom(s, abbr, i + 1)

\* "'" + ",".join(counties) + "'" without the quotes
CountyJoinedBare(counties) == Join(counties, <<",">>)

\* joined = "'" + ",".join(counties) + "'"
CountyJoined(counties) == <<"'">> \o Join(counties, <<",">>) \o <<"'">>

\* counties and counties != ["All"]
SpecificCounties(c) == c.given /\ c.list # <<>> /\ c.list # <<AllSentinel>>

NullToken == <<"n", "u", "l", "l">>

InitReportVars ==
    /\ r_pc = "idle"
    /\ call_sql = <<>>
    /\ r_abbr = <<>>
    /\ r_state_sql = <<>>
    /\ prepared_sql = <<>>
    /\ r_counties = [given |-> FALSE, list |-> <<>>]
    /\ r_status = "none"

\* conn = pool.getconn()
ReportLease ==
    /\ r_pc = "idle"
    /\ r_pc' = "leased"
    /\ UNCHANGED <<poolVars, exportVars, call_sql, r_abbr, r_state_sql, prepared_sql, r_counties, r_status>>

\* lines 37-39: fetch the template, 404 when there is none
ReportFetch ==
    /\ r_pc = "leased"
    /\ \E hasRow \in BOOLEAN : \E row \in StoredRows :
          /\ (~hasRow => row = <<>>)
          /\ call_sql' = fetch_call_sql_sync(hasRow, row)
    /\ IF call_sql' = <<>>
       THEN r_pc' = "finally" /\ r_status' = "NoTemplateFound"
       ELSE r_pc' = "fetched" /\ r_status' = r_status
    /\ UNCHANGED <<poolVars, exportVars, r_abbr, r_state_sql, prepared_sql, r_counties>>

\* lines 41-51: resolve the state leniently, rewrite the quoted tokens
ReportStateTokens ==
    /\ r_pc = "fetched"
    /\ \E state \in StateInputs :
          /\ r_abbr' = ReportAbbr(state)
          /\ r_state_sql' = ReSubFrom(call_sql, ReportAbbr(state), 1)
    /\ r_pc' = "state_done"
    /\ UNCHANGED <<poolVars, exportVars, call_sql, prepared_sql, r_counties, r_status>>

\* lines 53-60: substitute the county list, execute the statement
ReportCounties ==
    /\ r_pc = "state_done"
    /\ \E c \in CountyInputs :
          /\ r_counties' = c
          /\ prepared_sql' =
                IF SpecificCounties(c)
                THEN Replace(r_state_sql, NullToken, CountyJoined(c.list))
                ELSE r_state_sql
    /\ \E st \in {"executed", "StoreError"} : r_status' = st
    /\ r_pc' = "finally"
    /\ UNCHANGED <<poolVars, exportVars, call_sql, r_abbr, r_state_sql>>

\* finally: pool.putconn(conn); the locals of _run are gone with its return
ReportRelease ==
    /\ r_pc = "finally"
    /\ r_pc' = "idle"
    /\ call_sql' = <<>>
    /\ r_abbr' = <<>>
    /\ r_state_sql' = <<>>
    /\ prepared_sql' = <<>>
    /\ r_counties' = [given |-> FALSE, list |-> <<>>]
    /\ r_status' = "none"
    /\ UNCHANGED <<poolVars, exportVars>>

NextReport ==
    \/ ReportLease
    \/ ReportFetch
    \/ ReportStateTokens
    \/ ReportCounties
    \/ ReportRelease



(* ------------------- properties of the report engine ------------------- *)
\* starts of the tokens re.sub rewrites: leftmost matches, not overlapping
RECURSIVE TokenStartsFrom(_, _)
TokenStartsFrom(s, i) ==
    IF i > Len(s) THEN {}
    ELSE IF MatchAt(s, i)
         THEN {i} \cup TokenStartsFrom(s, MatchEnd(s, i) + 1)
         ELSE TokenStartsFrom(s, i + 1)

TokenStarts(s) == TokenStartsFrom(s, 1)

RECURSIVE Flatten(_)
Flatten(pieces) ==
    IF pieces = <<>> THEN <<>> ELSE Head(pieces) \o Flatten(Tail(pieces))

\* the token of ts (a set of token starts) that covers position i, 0 if none
TokenOf(s, ts, i) ==
    IF \E t \in ts : t <= i /\ i <= MatchEnd(s, t)
    THEN CHOOSE t \in ts : t <= i /\ i <= MatchEnd(s, t)
    ELSE 0

\* the template with only the two-letter suffix of each token replaced
SuffixRewritten(s, abbr) ==
    LET ts == TokenStarts(s)
    IN  Flatten([i \in 1..Len(s) |->
            LET t == TokenOf(s, ts, i)
            IN  IF t = 0 THEN <<s[i]>>
                ELSE IF i = MatchEnd(s, t) - 2 THEN abbr
                ELSE IF i = MatchEnd(s, t) - 1 THEN <<>>
                ELSE <<s[i]>>])

\* the template with everything between the quotes of each token replaced
TokenRewritten(s, abbr) ==
    LET ts == TokenStarts(s)
    IN  Flatten([i \in 1..Len(s) |->
            LET t == TokenOf(s, ts, i)
            IN  IF t = 0 THEN <<s[i]>>
                ELSE IF i = t THEN <<s[i]>> \o abbr
                ELSE IF i = MatchEnd(s, t) THEN <<s[i]>>
                ELSE <<>>])

ReportTokensDone == r_pc = "state_done"

\* C4 (as stated): each matching quoted token keeps its prefix up to and
\* including the underscore and its quotes, only the two-letter suffix is
\* replaced by the abbreviation; text outside the tokens is unchanged.
C4_OnlySuffixReplaced ==
    ReportTokensDone => r_state_sql = SuffixRewritten(call_sql, r_abbr)

\* C4 (amended): each matching quoted token is replaced by the abbreviation
\* between the token's quote characters (the prefix is dropped with the
\* suffix); text outside the tokens is unchanged.
C4_WholeTokenReplaced ==
    ReportTokensDone => r_state_sql = TokenRewritten(call_sql, r_abbr)

\* C('table_ca', null) with abbreviation tx is rewritten to C('tx', null)
C4_Witness_TokenRewritten ==
    /\ ReportTokensDone
    /\ r_abbr = <<"t", "x">>
    /\ call_sql = <<"C","(","'","t","a","b","l","e","_","c","a","'",","," ","n","u","l","l",")">>
    /\ r_state_sql = <<"C","(","'","t","x","'",","," ","n","u","l","l",")">>

ReportExecuted == r_pc = "finally" /\ r_status # "NoTemplateFound"

\* every occurrence of null replaced by joined, nothing else touched
NullsReplaced(s, joined) ==
    Flatten([i \in 1..Len(s) |->
        IF OccursAt(s, NullToken, i) THEN joined
        ELSE IF \E j \in (i - 3)..(i - 1) : OccursAt(s, NullToken, j) THEN <<>>
        ELSE <<s[i]>>])

\* 'c1,...,cn'
QuotedList(list) ==
    <<"'">> \o Flatten([i \in 1..Len(list) |->
                 IF i = 1 THEN list[i] ELSE <<",">> \o list[i]]) \o <<"'">>

\* C5: without counties, with an empty list or with the All sentinel the
\* executed statement is the template after the state step, null left as
\* is; with specific counties each null is replaced by 'c1,...,cn' and the
\* rest of the text is unchanged.
C5_CountySubstitution ==
    ReportExecuted =>
        IF r_counties.given /\ r_counties.list # <<>> /\ r_counties.list # <<AllSentinel>>
        THEN prepared_sql = NullsReplaced(r_state_sql, QuotedList(r_counties.list))
        ELSE prepared_sql = r_state_sql

\* ["06001","06013"] turns C('tx', null) into C('tx', '06001,06013')
C5_Witness_TwoCounties ==
    /\ ReportExecuted
    /\ r_counties.list = <<C06001, C06013>>
    /\ r_state_sql = <<"C","(","'","t","x","'",","," ","n","u","l","l",")">>
    /\ prepared_sql = <<"C","(","'","t","x","'",","," ","'","0","6","0","0","1",",",
                        "0","6","0","1","3","'",")">>


(* ======================================================================= *)
(* Export query builder: export.py                                         *)
(* ======================================================================= *)
\* the characters of a string literal
Chars(str) == [i \in 1..Len(str) |-> SubSeq(str, i, i)]

\* list(dict.fromkeys(xs)): first occurrences, in order
RECURSIVE Dedup(_)
Dedup(xs) ==
    IF xs = <<>> THEN <<>>
    ELSE LET rest == Dedup(SubSeq(xs, 1, Len(xs) - 1))
             last == xs[Len(xs)]
         IN  IF last \in Range(rest) THEN rest ELSE Append(rest, last)

\* {c.lower(): c for c in cols}: the keys in insertion order ...
DictKeys(cols) == Dedup([i \in 1..Len(cols) |-> Lower(cols[i])])

\* ... key in dict ...
DictHas(cols, key) == \E i \in 1..Len(cols) : Lower(cols[i]) = key

\* ... and dict[key]: a later column overwrites an earlier one
DictGet(cols, key) ==
    LET is == {i \in 1..Len(cols) : Lower(cols[i]) = key}
    IN  cols[CHOOSE i \in is : \A j \in is : j <= i]

\* next((cols_lower[c] for c in candidates if c in cols_lower), None);
\* <<>> stands for None
FirstCandidate(cols, candidates) ==
    LET is == {i \in 1..Len(candidates) : DictHas(cols, candidates[i])}
    IN  IF is = {} THEN <<>>
        ELSE DictGet(cols, candidates[CHOOSE i \in is : \A j \in is : i <= j])

\* next(original for key, original in cols_lower.items() if key is one of
\* good), None otherwise: the dict is walked in insertion order
FirstKeyAmong(cols, good) ==
    LET keys == DictKeys(cols)
        is   == {i \in 1..Len(keys) : keys[i] \in good}
    IN  IF is = {} THEN <<>>
        ELSE DictGet(cols, keys[CHOOSE i \in is : \A j \in is : i <= j])

CountyCandidates ==
    << Chars("county"), Chars("county_name"), Chars("official_name_county"),
       Chars("official_county_name"), Chars("county_nm"), Chars("cnty"),
       Chars("cnty_name") >>

HasCounty(k) == Contains(k, Chars("county"))
HasCnty(k) == StartsWith(k, Chars("cnty")) \/ EndsWith(k, Chars("_cnty"))

\* the lower-cased column names that contain "county" / look like "cnty"
CountyKeys(cols) == {k \in Range(DictKeys(cols)) : HasCounty(k)}
CntyKeys(cols) == {k \in Range(DictKeys(cols)) : HasCnty(k)}

\* _detect_county_column with its two fallbacks in the other order
detect_county_column_cnty_first(available) ==
    IF FirstCandidate(available, CountyCandidates) # <<>>
    THEN FirstCandidate(available, CountyCandidates)
    ELSE IF FirstKeyAmong(available, CntyKeys(available)) # <<>>
    THEN FirstKeyAmong(available, CntyKeys(available))
    ELSE FirstKeyAmong(available, CountyKeys(available))

\* _detect_county_column
detect_county_column(available) ==
    IF FirstCandidate(available, CountyCandidates) # <<>>
    THEN FirstCandidate(available, CountyCandidates)
    ELSE IF FirstKeyAmong(available, CountyKeys(available)) # <<>>
    THEN FirstKeyAmong(available, CountyKeys(available))
    ELSE FirstKeyAmong(available, CntyKeys(available))

GeoidCandidates == << Chars("block_geoid"), Chars("geoid_block"), Chars("geoid") >>

\* _detect_block_geoid_column
detect_block_geoid_column(available) == FirstCandidate(available, GeoidCandidates)

LookupTables == << Chars("dim_county_details"), Chars("dim_county") >>
NameCandidates == << Chars("county"), Chars("county_name"), Chars("official_county_name") >>
FipsCandidates ==
    << Chars("geo_id"), Chars("geoid"), Chars("county_geo_id"), Chars("county_fips"),
       Chars("county_fips_code"), Chars("countyfp"), Chars("fips") >>
StateCandidates ==
    << Chars("state_usps"), Chars("state"), Chars("official_name_state"),
       Chars("state_abbr"), Chars("state_name") >>

NoSource == [table |-> <<>>, name_col |-> <<>>, fips_col |-> <<>>, state_col |-> <<>>]

\* _table_exists / _get_columns against the catalog (a sequence of tables)
TableExists(catalog, name) == \E i \in 1..Len(catalog) : catalog[i].name = name
TableNamed(catalog, name) == catalog[CHOOSE i \in 1..Len(catalog) : catalog[i].name = name]

\* the descriptor of one preferred table, NoSource when it does not qualify
PreferredSource(catalog, name) ==
    IF ~TableExists(catalog, name) THEN NoSource
    ELSE LET cols == TableNamed(catalog, name).cols
             src  == [table     |-> name,
                      name_col  |-> FirstCandidate(cols, NameCandidates),
                      fips_col  |-> FirstCandidate(cols, FipsCandidates),
                      state_col |-> FirstCandidate(cols, StateCandidates)]
         IN  IF src.name_col # <<>> /\ src.fips_col # <<>> THEN src ELSE NoSource

\* _find_county_lookup_source
find_county_lookup_source(catalog) ==
    LET is == {i \in 1..Len(LookupTables) : PreferredSource(catalog, LookupTables[i]) # NoSource}
    IN  IF is = {} THEN NoSource
        ELSE PreferredSource(catalog, LookupTables[CHOOSE i \in is : \A j \in is : i <= j])

\* the descriptor of one table of the broad scan
BroadSource(tbl) ==
    LET src == [table     |-> tbl.name,
                name_col  |-> FirstKeyAmong(tbl.cols, CountyKeys(tbl.cols)),
                fips_col  |-> FirstCandidate(tbl.cols, FipsCandidates),
                state_col |-> FirstCandidate(tbl.cols, StateCandidates)]
    IN  IF src.name_col # <<>> /\ src.fips_col # <<>> THEN src ELSE NoSource

\* _find_county_lookup_source_broad: the tables with a column ILIKE
\* '%county%', in the order the catalog returns them
find_county_lookup_source_broad(catalog) ==
    LET is == {i \in 1..Len(catalog) :
                 /\ \E c \in Range(catalog[i].cols) : HasCounty(Lower(c))
                 /\ BroadSource(catalog[i]) # NoSource}
    IN  IF is = {} THEN NoSource
        ELSE BroadSource(catalog[CHOOSE i \in is : \A j \in is : i <= j])

\* _get_state_abbr: name_to_abbr.get(key) or abbr_to_abbr.get(key);
\* <<>> stands for the 400 "Unknown state"
get_state_abbr(state) ==
    LET key    == Lower(Strip(state))
        byName == {i \in 1..Len(DimStates) : DimStates[i].name = key}
        byAbbr == {i \in 1..Len(DimStates) : DimStates[i].abbr = key}
    IN  IF byName # {}
        THEN DimStates[CHOOSE i \in byName : \A j \in byName : j <= i].abbr
        ELSE IF byAbbr # {} THEN key
        ELSE <<>>

\* lines 216-221: the whitelist of the requested attributes
RECURSIVE Whitelist(_, _)
Whitelist(available, attributes) ==
    IF attributes = <<>> THEN <<>>
    ELSE LET key == Lower(Strip(Head(attributes)))
         IN  (IF DictHas(available, key) THEN <<DictGet(available, key)>> ELSE <<>>)
                \o Whitelist(available, Tail(attributes))

CountySuffix == Chars(" county")

\* lines 237-244 without the suffixed form
RECURSIVE NormVariantsBareOnly(_)
NormVariantsBareOnly(counties) ==
    IF counties = <<>> THEN <<>>
    ELSE LET v == Lower(Strip(Head(counties)))
         IN  (IF EndsWith(v, CountySuffix)
              THEN <<v, Strip(SubSeq(v, 1, Len(v) - 7))>>
              ELSE <<v>>)
                \o NormVariantsBareOnly(Tail(counties))

\* lines 237-244 (and 259-266): each county with and without " county"
RECURSIVE NormVariants(_)
NormVariants(counties) ==
    IF counties = <<>> THEN <<>>
    ELSE LET v == Lower(Strip(Head(counties)))
         IN  (IF EndsWith(v, CountySuffix)
              THEN <<v, Strip(SubSeq(v, 1, Len(v) - 7))>>
              ELSE <<v, v \o CountySuffix>>)
                \o NormVariants(Tail(counties))

\* line 245 (and 267): norm = list(dict.fromkeys(norm))
NormCounties(counties) == Dedup(NormVariants(counties))


(* ------------------------ export_csv: the statement -------------------- *)
NoPlan == [kind |-> "none", county_col |-> <<>>, geoid_col |-> <<>>,
           norm |-> <<>>, source |-> NoSource]

\* if counties: ... (lines 225-275); kind "unsupported" is the 400 of line 253
BuildPlan(available, counties, catalog) ==
    LET county_col      == detect_county_column(available)
        block_geoid_col == detect_block_geoid_column(available)
        source == IF find_county_lookup_source(catalog) # NoSource
                  THEN find_county_lookup_source(catalog)
                  ELSE find_county_lookup_source_broad(catalog)
    IN  IF counties.given /\ counties.list # <<>>
        THEN IF county_col # <<>>
             THEN [NoPlan EXCEPT !.kind = "direct", !.county_col = county_col,
                                 !.norm = NormCounties(counties.list)]
             ELSE IF block_geoid_col # <<>>
             THEN IF source = NoSource
                  THEN [NoPlan EXCEPT !.kind = "unsupported"]
                  ELSE [NoPlan EXCEPT !.kind = "join", !.geoid_col = block_geoid_col,
                                      !.norm = NormCounties(counties.list),
                                      !.source = source]
             ELSE [NoPlan EXCEPT !.kind = "all"]
        ELSE [NoPlan EXCEPT !.kind = "all"]

\* position of the column a quoted identifier names
ColIndex(cols, name) == CHOOSE i \in 1..Len(cols) : cols[i] = name

\* SELECT "c1", ..., "cn" of one row
Project(cols, row, selected) ==
    [i \in 1..Len(selected) |-> row[ColIndex(cols, selected[i])]]

\* LOWER(TRIM(x)) IN (norm)
InNorm(x, norm) == Lower(SqlTrim(x)) \in Range(norm)

RECURSIVE FlattenRows(_)
FlattenRows(groups) ==
    IF groups = <<>> THEN <<>> ELSE Head(groups) \o FlattenRows(Tail(groups))

\* SELECT ... FROM t WHERE LOWER(TRIM("county_col")) IN (...)
DirectRows(tbl, selected, plan) ==
    LET ci == ColIndex(tbl.cols, plan.county_col)
    IN  FlattenRows([i \in 1..Len(tbl.rows) |->
            IF InNorm(tbl.rows[i][ci], plan.norm)
            THEN <<Project(tbl.cols, tbl.rows[i], selected)>> ELSE <<>>])

\* the rows of the lookup table that join one row of the state table:
\* LEFT(b."geoid", 5) = c."fips" and LOWER(TRIM(c."name")) IN (...)
JoinPartners(look, geoid, plan) ==
    LET fi == ColIndex(look.cols, plan.source.fips_col)
        ni == ColIndex(look.cols, plan.source.name_col)
    IN  {j \in 1..Len(look.rows) :
            /\ look.rows[j][fi] = SqlLeft(geoid, 5)
            /\ InNorm(look.rows[j][ni], plan.norm)}

\* SELECT ... FROM t AS b JOIN lookup AS c ON ... WHERE ...: one output row
\* per pair of joined rows
JoinRows(tbl, look, selected, plan) ==
    LET gi == ColIndex(tbl.cols, plan.geoid_col)
    IN  FlattenRows([i \in 1..Len(tbl.rows) |->
            [k \in 1..Cardinality(JoinPartners(look, tbl.rows[i][gi], plan)) |->
                Project(tbl.cols, tbl.rows[i], selected)]])

\* the select list is not qualified: a selected column that the lookup table
\* has too is ambiguous in the join and the store rejects the statement
Ambiguous(look, selected) == \E c \in Range(selected) : c \in Range(look.cols)

\* cur.execute(sql, params); rows = cur.fetchall()
Execute(tbl, catalog, selected, plan) ==
    IF plan.kind = "all"
    THEN [status |-> "ok",
          rows |-> [i \in 1..Len(tbl.rows) |-> Project(tbl.cols, tbl.rows[i], selected)]]
    ELSE IF plan.kind = "direct"
    THEN [status |-> "ok", rows |-> DirectRows(tbl, selected, plan)]
    ELSE LET look == TableNamed(catalog, plan.source.table)
         IN  IF Ambiguous(look, selected)
             THEN [status |-> "StoreError", rows |-> <<>>]
             ELSE [status |-> "ok", rows |-> JoinRows(tbl, look, selected, plan)]


(* ------------------------ export_csv: the inputs ----------------------- *)
\* longest attribute list of a request
MaxAttrs == 3

AttrNames == { Chars("pop"), Chars(" POP "), Chars("Tech"), Chars("nope") }

RECURSIVE ListsUpTo(_, _)
ListsUpTo(S, n) ==
    IF n = 0 THEN {<<>>}
    ELSE LET prev == ListsUpTo(S, n - 1)
         IN  prev \cup {Append(l, x) : l \in prev, x \in S}

\* two rows whose values name their column
RowsFor(cols) ==
    << [i \in 1..Len(cols) |-> cols[i] \o <<"1">>],
       [i \in 1..Len(cols) |-> cols[i] \o <<"2">>] >>

Table(cols, rows) == [cols |-> cols, rows |-> rows]

\* what the catalog can hold for bdc_<abbr>: no table, plain columns, columns
\* differing only in case, a county column
AttrTables ==
    { Table(<<>>, <<>>),
      Table(<<Chars("tech")>>, RowsFor(<<Chars("tech")>>)),
      Table(<<Chars("pop"), Chars("tech")>>, RowsFor(<<Chars("pop"), Chars("tech")>>)),
      Table(<<Chars("Pop"), Chars("TECH"), Chars("pop")>>,
            RowsFor(<<Chars("Pop"), Chars("TECH"), Chars("pop")>>)),
      Table(<<Chars("tech"), Chars("county"), Chars("pop")>>,
            RowsFor(<<Chars("tech"), Chars("county"), Chars("pop")>>)) }

NoCounties == [given |-> FALSE, list |-> <<>>]
Counties(list) == [given |-> TRUE, list |-> list]

\* requests that vary the attributes
AttrRequests ==
    [ state      : StateInputs,
      counties   : {NoCounties, Counties(<<Chars("tech1")>>)},
      attributes : ListsUpTo(AttrNames, MaxAttrs),
      table      : AttrTables,
      catalog    : {<<>>} ]

\* county strings: a name in some case, with or without a suffix, padded
CountyStrings ==
    { pl \o n \o sfx \o pr :
        pl  \in {<<>>, Chars(" "), Chars("\t")},
        n   \in {Chars("orange"), Chars("Orange"), Chars("KERN")},
        sfx \in {<<>>, Chars(" county"), Chars(" County"), Chars("  COUNTY"), Chars("county")},
        pr  \in {<<>>, Chars(" ")} }

CountyLists ==
    {NoCounties, Counties(<<>>),
     Counties(<<Chars("Orange"), Chars("orange county")>>),
     Counties(<<Chars("Kern County"), Chars("Orange")>>)}
        \cup {Counties(<<c>>) : c \in CountyStrings}

TblCounty ==
    Table(<<Chars("pop"), Chars("County")>>,
          << <<Chars("1"), Chars("Orange County")>>,
             <<Chars("2"), Chars("  ORANGE ")>>,
             <<Chars("3"), Chars("Kern")>>,
             <<Chars("4"), Chars("orange county ")>>,
             <<Chars("5"), Chars("Kern County")>> >>)

TblGeoid ==
    Table(<<Chars("pop"), Chars("block_geoid")>>,
          << <<Chars("1"), Chars("060590001")>>,
             <<Chars("2"), Chars("060590002")>>,
             <<Chars("3"), Chars("060290001")>>,
             <<Chars("4"), Chars("0605")>> >>)

TblPlain ==
    Table(<<Chars("pop"), Chars("tech")>>,
          << <<Chars("1"), Chars("f")>>, <<Chars("2"), Chars("d")>> >>)

TblCnty ==
    Table(<<Chars("pop"), Chars("x_cnty")>>,
          << <<Chars("1"), Chars("Orange")>>, <<Chars("2"), Chars("kern county")>> >>)

CountyTables == {TblCounty, TblGeoid, TblPlain, TblCnty}

Named(name, tbl) == [name |-> name, cols |-> tbl.cols, rows |-> tbl.rows]

\* one row per county
DimCountyUnique ==
    Named(Chars("dim_county"),
          Table(<<Chars("county"), Chars("geo_id"), Chars("state")>>,
                << <<Chars("Orange County"), Chars("06059"), Chars("CA")>>,
                   <<Chars("Kern"), Chars("06029"), Chars("CA")>> >>))

\* several rows for one county id
DimCountyDetails ==
    Named(Chars("dim_county_details"),
          Table(<<Chars("County_Name"), Chars("GEOID")>>,
                << <<Chars("Orange"), Chars("06059")>>,
                   <<Chars("Orange"), Chars("06059")>>,
                   <<Chars("Kern"), Chars("06029")>> >>))

\* a preferred table without an id column
DimCountyDetailsNoId ==
    Named(Chars("dim_county_details"),
          Table(<<Chars("county")>>, << <<Chars("Orange")>> >>))

DimCountyFips ==
    Named(Chars("dim_county"),
          Table(<<Chars("county_name"), Chars("fips")>>,
                << <<Chars("orange"), Chars("06059")>>,
                   <<Chars("kern county"), Chars("06029")>> >>))

\* a lookup table that has a column named like a selected one
DimCountyPop ==
    Named(Chars("dim_county"),
          Table(<<Chars("county"), Chars("geoid"), Chars("pop")>>,
                << <<Chars("Orange"), Chars("06059"), Chars("9")>> >>))

\* tables only the broad scan finds
Places ==
    Named(Chars("places"),
          Table(<<Chars("county_fips"), Chars("label")>>,
                << <<Chars("06059"), Chars("Orange")>> >>))

Regions ==
    Named(Chars("regions"),
          Table(<<Chars("cname"), Chars("County"), Chars("geoid")>>,
                << <<Chars("x"), Chars("Orange"), Chars("06059")>>,
                   <<Chars("y"), Chars("Kern"), Chars("06029")>> >>))

Catalogs ==
    { <<>>,
      <<DimCountyUnique>>,
      <<DimCountyDetails, DimCountyUnique>>,
      <<DimCountyDetailsNoId, DimCountyFips>>,
      <<DimCountyPop>>,
      <<Places, Regions>>,
      <<Regions, Places>>,
      <<DimCountyDetailsNoId>> }

\* requests that vary the county filter and the tables behind it
CountyRequests ==
    [ state      : {Chars("tx"), Chars("guam")},
      counties   : CountyLists,
      attributes : {<<Chars("pop")>>, <<Chars("nope")>>},
      table      : CountyTables,
      catalog    : Catalogs ]

\* column names for the county detection: the listed names in several
\* cases, names that only contain "county", names that look like "cnty",
\* names differing only in case, and names that are none of these
MaxCols == 3

DetectColumns ==
    { Chars("pop"), Chars("COUNTY"), Chars("County_Name"), Chars("cnty_name"),
      Chars("my_county"), Chars("My_County"), Chars("countyfp"),
      Chars("x_cnty"), Chars("CNTYX"), Chars("block_geoid") }

\* a table has no two columns of the same name
Injective(l) == \A i, j \in 1..Len(l) : l[i] = l[j] => i = j

DetectTables ==
    { Table(cols, RowsFor(cols)) :
        cols \in {l \in ListsUpTo(DetectColumns, MaxCols) : l # <<>> /\ Injective(l)} }

\* requests that vary the columns of bdc_<abbr>; the first column is selected
DetectRequests ==
    { [ state      |-> Chars("tx"),
        counties   |-> Counties(<<Chars("Orange")>>),
        attributes |-> <<t.cols[1]>>,
        table      |-> t,
        catalog    |-> <<>> ] : t \in DetectTables }

(* ------------------------ export_csv: the request ---------------------- *)
InitExportVars ==
    /\ e_pc = "start"
    /\ e_abbr = <<>>
    /\ e_selected = <<>>
    /\ e_plan = NoPlan
    /\ e_rows = <<>>
    /\ e_status = "none"
    /\ e_leases = 0
    /\ e_queries = 0

InitNoExport ==
    /\ InitExportVars
    /\ e_in = [state |-> <<>>, counties |-> [given |-> FALSE, list |-> <<>>],
               attributes |-> <<>>, table |-> [cols |-> <<>>, rows |-> <<>>],
               catalog |-> <<>>]

\* lines 202-204: the attribute list must not be empty
ExportCheckAttributes ==
    /\ e_pc = "start"
    /\ IF e_in.attributes = <<>>
       THEN e_pc' = "done" /\ e_status' = "EmptyAttributeList"
       ELSE e_pc' = "run" /\ e_status' = e_status
    /\ UNCHANGED <<poolVars, reportVars, e_in, e_abbr, e_selected, e_plan, e_rows, e_leases, e_queries>>

\* line 207: conn = pool.getconn()
ExportLease ==
    /\ e_pc = "run"
    /\ e_leases' = e_leases + 1
    /\ e_pc' = "leased"
    /\ UNCHANGED <<poolVars, reportVars, e_in, e_abbr, e_selected, e_plan, e_rows, e_status, e_queries>>

\* lines 209-213: resolve the state, list the columns of bdc_<abbr>
ExportResolve ==
    /\ e_pc = "leased"
    /\ e_abbr' = get_state_abbr(e_in.state)
    /\ IF get_state_abbr(e_in.state) = <<>>
       THEN e_pc' = "finally" /\ e_status' = "UnknownState"
       ELSE IF e_in.table.cols = <<>>
       THEN e_pc' = "finally" /\ e_status' = "NoSuchTable"
       ELSE e_pc' = "resolved" /\ e_status' = e_status
    /\ UNCHANGED <<poolVars, reportVars, e_in, e_selected, e_plan, e_rows, e_leases, e_queries>>

\* lines 215-221 without the check of lines 222-223
ExportWhitelistUnchecked ==
    /\ e_pc = "resolved"
    /\ e_selected' = Whitelist(e_in.table.cols, e_in.attributes)
    /\ e_pc' = "selected"
    /\ UNCHANGED <<poolVars, reportVars, e_in, e_abbr, e_plan, e_rows, e_status, e_leases, e_queries>>

\* lines 215-223: whitelist the attributes
ExportWhitelist ==
    /\ e_pc = "resolved"
    /\ e_selected' = Whitelist(e_in.table.cols, e_in.attributes)
    /\ IF Whitelist(e_in.table.cols, e_in.attributes) = <<>>
       THEN e_pc' = "finally" /\ e_status' = "NoValidAttributes"
       ELSE e_pc' = "selected" /\ e_status' = e_status
    /\ UNCHANGED <<poolVars, reportVars, e_in, e_abbr, e_plan, e_rows, e_leases, e_queries>>

\* lines 225-275: detect the columns, build the statement
ExportBuild ==
    /\ e_pc = "selected"
    /\ e_plan' = BuildPlan(e_in.table.cols, e_in.counties, e_in.catalog)
    /\ IF BuildPlan(e_in.table.cols, e_in.counties, e_in.catalog).kind = "unsupported"
       THEN e_pc' = "finally" /\ e_status' = "NoCountyFilterSupport"
       ELSE e_pc' = "built" /\ e_status' = e_status
    /\ UNCHANGED <<poolVars, reportVars, e_in, e_abbr, e_selected, e_rows, e_leases, e_queries>>

\* lines 277-289: execute, fetch, write the CSV (header row: selected)
ExportExecute ==
    /\ e_pc = "built"
    /\ e_queries' = e_queries + 1
    /\ \E failed \in BOOLEAN :
          LET res == Execute(e_in.table, e_in.catalog, e_selected, e_plan)
          IN  IF failed THEN e_status' = "StoreError" /\ e_rows' = <<>>
              ELSE e_status' = res.status /\ e_rows' = res.rows
    /\ e_pc' = "finally"
    /\ UNCHANGED <<poolVars, reportVars, e_in, e_abbr, e_selected, e_plan, e_leases>>

\* lines 290-291: finally: pool.putconn(conn)
ExportRelease ==
    /\ e_pc = "finally"
    /\ e_pc' = "done"
    /\ UNCHANGED <<poolVars, reportVars, e_in, e_abbr, e_selected, e_plan, e_rows, e_status, e_leases, e_queries>>

NextExport ==
    \/ ExportCheckAttributes
    \/ ExportLease
    \/ ExportResolve
    \/ ExportWhitelist
    \/ ExportBuild
    \/ ExportExecute
    \/ ExportRelease

\* the status code of the response
HttpStatus(st) ==
    IF st \in {"EmptyAttributeList", "UnknownState", "NoValidAttributes", "NoCountyFilterSupport"}
    THEN 400
    ELSE IF st = "NoSuchTable" THEN 404
    ELSE IF st = "StoreError" THEN 500
    ELSE 200


(* ------------------------ properties of export_csv --------------------- *)
\* the request got past the whitelist: state resolved, table found, some
\* attribute selected
ExportPastWhitelist ==
    /\ e_pc \in {"selected", "built", "finally", "done"}
    /\ e_selected # <<>>

\* an attribute names a column: equal up to letter case (and the blanks
\* around the requested name)
Names(a, c) == Lower(Strip(a)) = Lower(c)

\* the columns the attributes name, in the order the attributes first name
\* them, each once
IntersectionInRequestOrder(cols, attributes) ==
    LET hits == SelectSeq(attributes, LAMBDA a : \E c \in Range(cols) : Names(a, c))
    IN  Dedup([i \in 1..Len(hits) |-> DictGet(cols, Lower(Strip(hits[i])))])

\* C3: the selected columns (the CSV header) are exactly the case-insensitive
\* intersection of the attributes and the table's columns, in the order the
\* attributes first name them, each column at most once.
C3_ExactIntersection ==
    ExportPastWhitelist =>
        e_selected = IntersectionInRequestOrder(e_in.table.cols, e_in.attributes)

\* C8: an empty attribute list fails with EmptyAttributeList (400) and no
\* connection is ever leased; with a resolvable state, an existing table and
\* attributes none of which names a column the request fails with
\* NoValidAttributes (400) and no data query is executed.
C8_AttributeErrors ==
    /\ e_in.attributes = <<>> =>
          /\ e_leases = 0
          /\ e_pc = "done" => (e_status = "EmptyAttributeList" /\ HttpStatus(e_status) = 400)
    /\ ( /\ e_in.attributes # <<>>
         /\ get_state_abbr(e_in.state) # <<>>
         /\ e_in.table.cols # <<>>
         /\ \A a \in Range(e_in.attributes) : \A c \in Range(e_in.table.cols) : ~Names(a, c) ) =>
          /\ e_queries = 0
          /\ e_pc = "done" => (e_status = "NoValidAttributes" /\ HttpStatus(e_status) = 400)

\* attributes ["nope", "nope"] on a table with the columns pop and tech
C8_Witness_NoValidAttributes ==
    /\ e_pc = "done"
    /\ e_in.attributes = <<Chars("nope"), Chars("nope")>>
    /\ e_in.table.cols = <<Chars("pop"), Chars("tech")>>
    /\ e_status = "NoValidAttributes"
    /\ e_leases = 1
    /\ e_queries = 0

\* a non-empty county list is requested
CountiesRequested == e_in.counties.given /\ e_in.counties.list # <<>>

\* C2: with a non-empty county list and a table that has neither a county
\* column nor a geo-id column the request fails with NoCountyFilterSupport
\* (400) and executes no query.
C2_UnsupportedFilterFails ==
    ( /\ ExportPastWhitelist
      /\ CountiesRequested
      /\ detect_county_column(e_in.table.cols) = <<>>
      /\ detect_block_geoid_column(e_in.table.cols) = <<>> ) =>
        /\ e_queries = 0
        /\ e_pc \in {"finally", "done"} =>
              (e_status = "NoCountyFilterSupport" /\ HttpStatus(e_status) = 400)

BareNames == {Chars("orange"), Chars("kern")}

\* the county string c is the name n, with or without " county", in any
\* letter case, with any whitespace around it
IsVariant(c, n) == Lower(Strip(c)) \in {n, n \o CountySuffix}

\* the stored value x is the name n, with or without " county"
StoredAs(x, n) == Lower(SqlTrim(x)) \in {n, n \o CountySuffix}

NoDuplicates(xs) == \A i, j \in 1..Len(xs) : xs[i] = xs[j] => i = j

\* C6: for every requested county, with or without " county", the parameter
\* list holds the bare name and the "<name> county" form, each once, and
\* the direct filter returns every row whose stored county is that name,
\* with or without the suffix.
C6_BothFormsMatch ==
    /\ e_plan.kind \in {"direct", "join"} =>
          /\ NoDuplicates(e_plan.norm)
          /\ \A c \in Range(e_in.counties.list) : \A n \in BareNames :
                IsVariant(c, n) =>
                    (n \in Range(e_plan.norm) /\ (n \o CountySuffix) \in Range(e_plan.norm))
    /\ (e_plan.kind = "direct" /\ e_pc \in {"finally", "done"} /\ e_status = "ok") =>
          \A i \in 1..Len(e_in.table.rows) :
              \A c \in Range(e_in.counties.list) : \A n \in BareNames :
                  ( /\ IsVariant(c, n)
                    /\ StoredAs(e_in.table.rows[i][ColIndex(e_in.table.cols, e_plan.county_col)], n) )
                  => Project(e_in.table.cols, e_in.table.rows[i], e_selected) \in Range(e_rows)

\* "\tOrange County" selects the rows stored as "Orange County", "  ORANGE "
\* and "orange county "
C6_Witness_SuffixedRequest ==
    /\ e_pc = "done"
    /\ e_status = "ok"
    /\ e_in.counties.list = <<Chars("\tOrange County")>>
    /\ e_in.table = TblCounty
    /\ e_plan.norm = <<Chars("orange county"), Chars("orange")>>
    /\ e_rows = << <<Chars("1")>>, <<Chars("2")>>, <<Chars("4")>> >>

\* number of times row r occurs in rows
Occurrences(rows, r) == Cardinality({i \in 1..Len(rows) : rows[i] = r})

\* what a direct filter would return if every row carried the name the
\* lookup table gives for its county id: the rows whose county is requested,
\* each once
RowsByCountyName(tbl, look, selected, plan) ==
    LET gi == ColIndex(tbl.cols, plan.geoid_col)
    IN  FlattenRows([i \in 1..Len(tbl.rows) |->
            IF JoinPartners(look, tbl.rows[i][gi], plan) # {}
            THEN <<Project(tbl.cols, tbl.rows[i], selected)>> ELSE <<>>])

\* C7: with a geo-id column only and a preferred lookup table, the joined
\* filter returns the rows a direct county filter would return, with the
\* same multiplicity.
C7_JoinEqualsDirect ==
    ( /\ e_pc \in {"finally", "done"}
      /\ e_status = "ok"
      /\ e_plan.kind = "join"
      /\ find_county_lookup_source(e_in.catalog) # NoSource ) =>
        LET look == TableNamed(e_in.catalog, e_plan.source.table)
            want == RowsByCountyName(e_in.table, look, e_selected, e_plan)
        IN  \A r \in Range(want) \cup Range(e_rows) :
                Occurrences(e_rows, r) = Occurrences(want, r)

(* --------------------- properties of the county detection -------------- *)
\* the statement has been built from the detected columns
PlanBuilt == e_plan.kind # "none"

\* the first of the names, in list order, that some column equals up to case
\* (0: none)
FirstListed(cols, names) ==
    LET is == {i \in 1..Len(names) : \E c \in Range(cols) : Lower(c) = names[i]}
    IN  IF is = {} THEN 0 ELSE CHOOSE i \in is : \A j \in is : i <= j

\* position of the first column, in table order, whose lower-cased name
\* contains "county" / looks like "cnty" (0: none)
FirstContaining(cols) ==
    LET is == {i \in 1..Len(cols) : HasCounty(Lower(cols[i]))}
    IN  IF is = {} THEN 0 ELSE CHOOSE i \in is : \A j \in is : i <= j

FirstCntyLike(cols) ==
    LET is == {i \in 1..Len(cols) : HasCnty(Lower(cols[i]))}
    IN  IF is = {} THEN 0 ELSE CHOOSE i \in is : \A j \in is : i <= j

\* the last column, in table order, that equals the name up to case
LastTwin(cols, name) ==
    LET is == {i \in 1..Len(cols) : Lower(cols[i]) = Lower(name)}
    IN  cols[CHOOSE i \in is : \A j \in is : j <= i]

\* col is a choice the stated priority allows (<<>>: none)
StatedChoice(cols, col) ==
    IF FirstListed(cols, CountyCandidates) # 0
    THEN col \in Range(cols) /\ Lower(col) = CountyCandidates[FirstListed(cols, CountyCandidates)]
    ELSE IF FirstContaining(cols) # 0
    THEN col = cols[FirstContaining(cols)]
    ELSE IF FirstCntyLike(cols) # 0
    THEN col \in Range(cols) /\ HasCnty(Lower(col))
    ELSE col = <<>>

\* the same priority, a group of columns that differ only in case being
\* represented by its last member
TwinChoice(cols) ==
    IF FirstListed(cols, CountyCandidates) # 0
    THEN LastTwin(cols, CountyCandidates[FirstListed(cols, CountyCandidates)])
    ELSE IF FirstContaining(cols) # 0
    THEN LastTwin(cols, cols[FirstContaining(cols)])
    ELSE IF FirstCntyLike(cols) # 0
    THEN LastTwin(cols, cols[FirstCntyLike(cols)])
    ELSE <<>>

\* C11 (as stated): the county column is chosen by strict priority: the first
\* listed name that a column equals up to case; otherwise the first column
\* in table order whose lower-cased name contains "county"; otherwise a
\* column that starts with "cnty" or ends with "_cnty"; otherwise none.
C11_StrictPriority ==
    (PlanBuilt /\ CountiesRequested) =>
        StatedChoice(e_in.table.cols, e_plan.county_col)

\* C11: the same priority, where the column found for the first matching
\* lower-cased name is the last column, in table order, that has this name up
\* to case; the result is a column of the table or none.
C11_PriorityLastOfTwins ==
    (PlanBuilt /\ CountiesRequested) =>
        /\ e_plan.county_col = TwinChoice(e_in.table.cols)
        /\ e_plan.county_col \in Range(e_in.table.cols) \cup {<<>>}
        /\ (e_plan.kind = "direct" <=> e_plan.county_col # <<>>)

\* My_County precedes my_county and x_cnty: the second fallback is not
\* reached and the later of the two twins is the county column
C11_Witness_TwinColumns ==
    /\ e_pc = "done"
    /\ e_in.table.cols = <<Chars("x_cnty"), Chars("My_County"), Chars("my_county")>>
    /\ e_plan.kind = "direct"
    /\ e_plan.county_col = Chars("my_county")

(* --------------------- properties of the lookup source ----------------- *)
\* the county filter has to go through a lookup table: counties requested,
\* no county column, a block geo-id column
NeedsLookup ==
    /\ PlanBuilt
    /\ CountiesRequested
    /\ detect_county_column(e_in.table.cols) = <<>>
    /\ detect_block_geoid_column(e_in.table.cols) # <<>>

\* the tables in the order they are tried: dim_county_details, dim_county ...
PreferredTables(catalog) ==
    LET present == SelectSeq(LookupTables, LAMBDA n : TableExists(catalog, n))
    IN  [i \in 1..Len(present) |-> TableNamed(catalog, present[i])]

\* ... then the tables with a column matching %county%, in catalog order
BroadTables(catalog) == SelectSeq(catalog, LAMBDA t : FirstContaining(t.cols) # 0)

\* the listed name / id column of a table (<<>>: none)
ListedColumn(cols, names) ==
    IF FirstListed(cols, names) = 0 THEN <<>>
    ELSE LastTwin(cols, names[FirstListed(cols, names)])

\* table, name column and id column of a lookup source
NoDescriptor == [table |-> <<>>, name_col |-> <<>>, fips_col |-> <<>>]

Descriptor(t) ==
    [table    |-> t.name,
     name_col |-> ListedColumn(t.cols, NameCandidates),
     fips_col |-> ListedColumn(t.cols, FipsCandidates)]

\* first table of the sequence that has both a listed name column and a
\* listed id column
FirstQualifying(tables) ==
    LET is == {i \in 1..Len(tables) :
                 /\ Descriptor(tables[i]).name_col # <<>>
                 /\ Descriptor(tables[i]).fips_col # <<>>}
    IN  IF is = {} THEN NoDescriptor
        ELSE Descriptor(tables[CHOOSE i \in is : \A j \in is : i <= j])

\* the source: one detection for every table, preferred or not
StatedSource(catalog) ==
    FirstQualifying(PreferredTables(catalog) \o BroadTables(catalog))

\* the plan uses this source, or fails with NoCountyFilterSupport if none
PlanUses(src) ==
    IF src = NoDescriptor
    THEN e_plan.kind = "unsupported" /\ e_status = "NoCountyFilterSupport"
    ELSE /\ e_plan.kind = "join"
         /\ e_plan.source.table = src.table
         /\ e_plan.source.name_col = src.name_col
         /\ e_plan.source.fips_col = src.fips_col

\* C12: the lookup source is the first table, in the order
\* dim_county_details, dim_county, then the tables with a column matching
\* %county% in catalog order, that has a name column among county,
\* county_name, official_county_name and an id column among the listed ids,
\* the broad stage detecting both as the preferred stage does; if no table
\* qualifies the export fails with NoCountyFilterSupport.
C12_SameDetectionInBothStages ==
    NeedsLookup => PlanUses(StatedSource(e_in.catalog))

(* --------------------------- request workers --------------------------- *)
\* run_db hands _run to a free executor thread, which calls pool.getconn()
run_db(w) ==
    /\ pc[w] = "idle"
    /\ pc' = [pc EXCEPT ![w] = "empty"]
    /\ result' = [result EXCEPT ![w] = "none"]
    /\ awaited' = [awaited EXCEPT ![w] = TRUE]
    /\ UNCHANGED <<max_size, q, created, opened, held, tmp, reportVars, exportVars>>

\* getconn, first operand of the condition: self._q.empty()
GetconnEmpty(w) ==
    /\ pc[w] = "empty"
    /\ pc' = [pc EXCEPT ![w] = IF q = <<>> THEN "cmp" ELSE "get"]
    /\ UNCHANGED <<max_size, q, created, opened, held, tmp, result, awaited, reportVars, exportVars>>

\* getconn, second operand: self._created < self._max
GetconnCmp(w) ==
    /\ pc[w] = "cmp"
    /\ pc' = [pc EXCEPT ![w] = IF created < max_size THEN "load" ELSE "get"]
    /\ UNCHANGED <<max_size, q, created, opened, held, tmp, result, awaited, reportVars, exportVars>>

\* getconn, self._created += 1: the load ...
GetconnLoad(w) ==
    /\ pc[w] = "load"
    /\ tmp' = [tmp EXCEPT ![w] = created]
    /\ pc' = [pc EXCEPT ![w] = "store"]
    /\ UNCHANGED <<max_size, q, created, opened, held, result, awaited, reportVars, exportVars>>

\* ... and the store of the unsynchronised increment
GetconnStore(w) ==
    /\ pc[w] = "store"
    /\ created' = tmp[w] + 1
    /\ tmp' = [tmp EXCEPT ![w] = 0]
    /\ pc' = [pc EXCEPT ![w] = "connect"]
    /\ UNCHANGED <<max_size, q, opened, held, result, awaited, reportVars, exportVars>>

\* getconn, return self._connect(): pg8000.connect succeeds
ConnectOk(w) ==
    /\ pc[w] = "connect"
    /\ opened' = opened + 1
    /\ held' = [held EXCEPT ![w] = opened + 1]
    /\ pc' = [pc EXCEPT ![w] = "try"]
    /\ UNCHANGED <<max_size, q, created, tmp, result, awaited, reportVars, exportVars>>

\* pg8000.connect raises: getconn is called before the try, so the
\* exception leaves _run without a putconn
ConnectFail(w) ==
    /\ pc[w] = "connect"
    /\ result' = [result EXCEPT ![w] = "connect_failed"]
    /\ pc' = [pc EXCEPT ![w] = "idle"]
    /\ UNCHANGED <<max_size, q, created, opened, held, tmp, awaited, reportVars, exportVars>>

\* getconn, return self._q.get(): blocks while the queue is empty
GetconnGet(w) ==
    /\ pc[w] = "get"
    /\ q # <<>>
    /\ held' = [held EXCEPT ![w] = Head(q)]
    /\ q' = Tail(q)
    /\ pc' = [pc EXCEPT ![w] = "try"]
    /\ UNCHANGED <<max_size, created, opened, tmp, result, awaited, reportVars, exportVars>>

\* the body of the try-block runs to its return or to an exception
TryBody(w) ==
    /\ pc[w] = "try"
    /\ \E k \in Kinds : \E r \in Outcomes(k) : result' = [result EXCEPT ![w] = r]
    /\ pc' = [pc EXCEPT ![w] = "finally"]
    /\ UNCHANGED <<max_size, q, created, opened, held, tmp, awaited, reportVars, exportVars>>

\* finally: pool.putconn(conn), a Queue.put that blocks while the queue is full
PutconnMissing(w) ==
    /\ pc[w] = "finally"
    /\ IF result[w] = "ok"
       THEN /\ Len(q) < max_size
            /\ q' = Append(q, held[w])
       ELSE q' = q
    /\ held' = [held EXCEPT ![w] = 0]
    /\ pc' = [pc EXCEPT ![w] = "idle"]
    /\ UNCHANGED <<max_size, created, opened, tmp, result, awaited, reportVars, exportVars>>

Putconn(w) ==
    /\ pc[w] = "finally"
    /\ Len(q) < max_size
    /\ q' = Append(q, held[w])
    /\ held' = [held EXCEPT ![w] = 0]
    /\ pc' = [pc EXCEPT ![w] = "idle"]
    /\ UNCHANGED <<max_size, created, opened, tmp, result, awaited, reportVars, exportVars>>

\* the calling request is cancelled while its worker is in flight: the
\* executor thread is not interrupted
Cancel(w) ==
    /\ pc[w] # "idle"
    /\ awaited[w]
    /\ awaited' = [awaited EXCEPT ![w] = FALSE]
    /\ UNCHANGED <<max_size, q, created, opened, pc, held, tmp, result, reportVars, exportVars>>

Next ==
    \E w \in Workers :
        \/ run_db(w)
        \/ GetconnEmpty(w)
        \/ GetconnCmp(w)
        \/ GetconnLoad(w)
        \/ GetconnStore(w)
        \/ ConnectOk(w)
        \/ ConnectFail(w)
        \/ GetconnGet(w)
        \/ TryBody(w)
        \/ Putconn(w)
        \/ Cancel(w)

Init == InitPool /\ InitReportVars /\ InitNoExport

Spec == Init /\ [][Next]_vars

\* one export_csv request, the attribute list varied
InitExport == InitGetPool /\ InitReportVars /\ InitExportVars /\ e_in \in AttrRequests

SpecExport == InitExport /\ [][NextExport]_vars

\* one export_csv request, the county filter varied
InitCounty == InitGetPool /\ InitReportVars /\ InitExportVars /\ e_in \in CountyRequests

SpecCounty == InitCounty /\ [][NextExport]_vars

\* one run_report request against the pool get_pool() builds
InitReport == InitGetPool /\ InitReportVars /\ InitNoExport

SpecReport == InitReport /\ [][NextReport]_vars

\* one export_csv request, the columns of the table varied
InitDetect == InitGetPool /\ InitReportVars /\ InitExportVars /\ e_in \in DetectRequests

SpecDetect == InitDetect /\ [][NextExport]_vars

(* ------------------------- properties of the pool ---------------------- *)
CheckedOut == {w \in Workers : held[w] # 0}
AllIdle == \A w \in Workers : pc[w] = "idle"

\* C1: no more than max_size connections are ever created, hence the
\* connections checked out plus the connections idle in the queue never
\* exceed max_size.
C1_NeverMoreThanMax ==
    /\ opened <= max_size
    /\ Cardinality(CheckedOut) + Len(q) <= max_size

\* C10: a caller of getconn is blocked on the idle queue only when no
\* connection is idle and max_size connections have been created.
C10_WaitsOnlyWhenExhausted ==
    \A w \in Workers :
        (pc[w] = "get" /\ q = <<>>) => created = max_size

\* no connection is both idle and checked out, or idle twice, or checked
\* out by two workers
C9_Exclusive ==
    /\ \A i, j \in 1..Len(q) : q[i] = q[j] => i = j
    /\ \A w \in Workers : held[w] # 0 => held[w] \notin Range(q)
    /\ \A v, w \in Workers : (held[v] # 0 /\ held[v] = held[w]) => v = w

\* once every worker has finished, every connection is idle in the queue
C9_NoneCheckedOut ==
    AllIdle => (CheckedOut = {} /\ Range(q) = 1..opened)

\* a worker gives up its connection only by the put of its finally-block,
\* and a worker that finishes while holding one puts it on the queue
C9_ReleaseStep ==
    \A w \in Workers :
        /\ (held[w] # 0 /\ held'[w] # held[w]) =>
              (pc[w] = "finally" /\ held'[w] = 0 /\ q' = Append(q, held[w]))
        /\ (held[w] # 0 /\ pc[w] # "idle" /\ pc'[w] = "idle") =>
              (held'[w] = 0 /\ q' = Append(q, held[w]))

\* C9: every leased connection is returned to the idle queue exactly once
\* when its worker finishes, whatever the outcome and whether or not the
\* caller was cancelled; once all workers have finished none is checked out.
C9_ReturnedExactlyOnce ==
    [](C9_Exclusive /\ C9_NoneCheckedOut) /\ [][C9_ReleaseStep]_vars

\* a cancelled request whose worker ended in a store error has finished and
\* its connection is back in the queue
C9_Witness_CancelledErrorReturned ==
    /\ AllIdle
    /\ opened > 0
    /\ \E w \in Workers : result[w] = "store_error" /\ ~awaited[w]
    /\ \E w \in Workers : result[w] = "client_error"
    /\ Len(q) = opened

\* C13: putconn never blocks: whenever a worker is at the put of its
\* finally-block, the idle queue holds fewer than max_size connections.
C13_PutconnNeverBlocks ==
    \A w \in Workers : pc[w] = "finally" => Len(q) < max_size

\* a worker is inside getconn, between its call and its return or raise
InGetconn(w) == pc[w] \in {"empty", "cmp", "load", "store", "connect", "get"}

\* C14: whenever no getconn call is in progress, the created counter equals
\* the connections idle in the queue plus the connections checked out; a
\* getconn whose connection attempt fails leaves the counter unchanged.
C14_CreatedCountsConnections ==
    (\A w \in Workers : ~InGetconn(w)) =>
        created = Len(q) + Cardinality(CheckedOut)

====
